---- MODULE Spec2Model ----
(***************************************************************************)
(* Model of api_Code.py: generate_3d_mesh_from_image, the sequential       *)
(* orchestration of the three InstantMesh remote stages, the local copies  *)
(* of their artifacts and the release of the gradio client.                *)
(*                                                                         *)
(* The environment (the local filesystem, the Client constructor, the      *)
(* three predict calls, shutil.copy and Client.close) answers each call    *)
(* with one of the outcomes the call can have; the answers of a run are    *)
(* recorded in `trace`.                                                    *)
(***************************************************************************)
EXTENDS Integers, Sequences, FiniteSets, TLC

\* ------------------------------------------------------------------ bounds
\* Number of consecutive invocations of generate_3d_mesh_from_image.
MaxRuns == 2
\* Number of distinct contents the remote service may give an artifact.
NumData == 2

Data == 1..NumData

\* ---------------------------------------------------------------- constants
\* The output_dir argument, as a path (a sequence of components).
output_dir == <<"out">>

\* Base names the remote service may give the two mesh artifacts.
RemoteMeshNames == {"mesh.obj", "mesh.glb", "preprocessed_image.png"}

\* `client = None` (line 44).
NoClient == 0

\* ------------------------------------------------------------ pure helpers
\* os.path.join(output_dir, name)
join(dir, name) == dir \o <<name>>

\* Faulty variant: the component before the base name is taken.
basename_parent(path) == path[Len(path) - 1]

\* os.path.basename(path)
basename(path) == path[Len(path)]

\* Where gradio_client leaves the artifact of a stage: a temporary
\* directory of its own per returned file, then the remote base name.
TempPath(slot, name) == <<"tmp", slot, name>>

preprocessed_filename == join(output_dir, "preprocessed_image.png")
multiview_filename == join(output_dir, "multiview_generation.png")

\* Contents of a file: the stage that produced it and the data the service
\* returned; data 0 is a file a failed copy left truncated.
Content(slot, d) == <<slot, d>>
Truncated(c) == <<c[1], 0>>

\* The values generate_3d_mesh_from_image hands its caller.
ReturnNone == [kind |-> "none", paths |-> <<>>, exc |-> ""]
ReturnPaths(a, b) == [kind |-> "paths", paths |-> <<a, b>>, exc |-> ""]
Propagates(e) == [kind |-> "raised", paths |-> <<>>, exc |-> e]
NotReturned == [kind |-> "running", paths |-> <<>>, exc |-> ""]

\* A function with one more (or one replaced) entry.
Put(f, k, v) == [x \in (DOMAIN f) \cup {k} |-> IF x = k THEN v ELSE f[x]]

Empty == [x \in {} |-> 0]

VARIABLES
    input_exists,   \* os.path.exists(input_image_path)
    output_nul,     \* output_dir holds an embedded NUL character
    parent_writable,\* a directory may be created where output_dir names one
    outKind,        \* what is at output_dir: "absent", "dir" or "file"
    files,          \* the files of output_dir: local path -> content
    tmp,            \* the downloaded artifacts: temporary path -> content
    run,            \* number of the current invocation
    pc,             \* the statement the invocation is at
    client,         \* the local `client`: NoClient or a session handle
    processed_image_gradio_path,
    generated_mvs_gradio_path,
    obj_model_temp_path,
    glb_model_temp_path,
    pending,        \* the value of the `return` the finally clause is run for
    result,         \* what the invocation gave its caller
    remote_log,     \* <<handle, operation>> of this run, in order
    trace,          \* the environment's answers to this run, in order
    first           \* trace, files and result of the first invocation

vars == <<input_exists, output_nul, parent_writable, outKind, files, tmp, run, pc, client,
          processed_image_gradio_path, generated_mvs_gradio_path,
          obj_model_temp_path, glb_model_temp_path, pending, result,
          remote_log, trace, first>>

inputs == <<input_exists, output_nul, parent_writable>>
locals == <<processed_image_gradio_path, generated_mvs_gradio_path,
            obj_model_temp_path, glb_model_temp_path>>

NoPath == <<>>
NoSummary == [trace |-> <<>>, files |-> Empty, result |-> NotReturned]

Init ==
    /\ input_exists \in BOOLEAN
    /\ output_nul \in BOOLEAN
    /\ parent_writable \in BOOLEAN
    /\ outKind \in {"absent", "dir", "file"}
    /\ output_nul => outKind = "absent"
    /\ files = Empty
    /\ tmp = Empty
    /\ run = 1
    /\ pc = "validate"
    /\ client = NoClient
    /\ processed_image_gradio_path = NoPath
    /\ generated_mvs_gradio_path = NoPath
    /\ obj_model_temp_path = NoPath
    /\ glb_model_temp_path = NoPath
    /\ pending = NotReturned
    /\ result = NotReturned
    /\ remote_log = <<>>
    /\ trace = <<>>
    /\ first = NoSummary

\* ------------------------------------------------------------- environment
\* An answer of the environment to one call: the call, its outcome, the
\* data of the artifact(s) returned and the base names given to them.
Answer(op, outcome, d, n1, n2) == <<op, outcome, d, n1, n2>>
Raises(op) == Answer(op, "raise", 0, "", "")

\* The remote service is deterministic and the invocations have identical
\* inputs: a later invocation is given the answers the first one was given,
\* for as long as it makes the calls the first one made.
Replays(a) ==
    IF run = 1 \/ Len(trace) >= Len(first.trace)
    THEN TRUE
    ELSE a = first.trace[Len(trace) + 1]

ConnectAnswers == {Answer("connect", "ok", 0, "", ""), Raises("connect")}
PreprocessAnswers ==
    {Answer("preprocess", "ok", d, "image.png", "") : d \in Data}
        \cup {Raises("preprocess")}
MvsAnswers ==
    {Answer("generate_mvs", "ok", d, "mvs.png", "") : d \in Data}
        \cup {Raises("generate_mvs")}
Make3dAnswers ==
    {Answer("make3d", "ok", d, n1, n2) :
        d \in Data, n1 \in RemoteMeshNames, n2 \in RemoteMeshNames}
        \cup {Raises("make3d")}
\* shutil.copy: done; refused before the destination is opened; or failed
\* after the destination was opened for writing, which leaves it truncated.
CopyAnswers ==
    {Answer("copy", o, 0, "", "") : o \in {"ok", "refused", "truncated"}}
CloseAnswers == {Answer("close", "ok", 0, "", ""), Raises("close")}

\* ------------------------------------------------------- the code's steps
\* Faulty variant: the existence check of line 33 never fires.
InputMissingIgnored == FALSE

\* Line 33: `if not os.path.exists(input_image_path)`.
InputMissing == ~input_exists

\* Faulty variant: os.makedirs(output_dir) without exist_ok=True.
makedirs_not_exist_ok(nul, kind, writable) ==
    IF nul THEN "ValueError"
    ELSE IF kind # "absent" THEN "OSError"
    ELSE IF writable THEN "ok" ELSE "OSError"

\* Line 39: os.makedirs(output_dir, exist_ok=True) on a path that holds a
\* NUL character, names a file, names a directory, or names nothing yet.
makedirs(nul, kind, writable) ==
    IF nul THEN "ValueError"
    ELSE IF kind = "file" THEN "OSError"
    ELSE IF kind = "dir" THEN "ok"
    ELSE IF writable THEN "ok" ELSE "OSError"

\* Lines 38-42: `except OSError` returns None; nothing else is caught there.
MakedirsHandler(outcome) ==
    IF outcome = "ok" THEN "continue"
    ELSE IF outcome = "OSError" THEN "return_none"
    ELSE "propagate"

\* Faulty variant: the copy is skipped.
copy_skipped(fs, src, dst, outcome) == fs

\* shutil.copy(src, dst) into the files `fs`.
copy(fs, src, dst, outcome) ==
    IF outcome = "ok" THEN Put(fs, dst, tmp[src])
    ELSE IF outcome = "truncated" THEN Put(fs, dst, Truncated(tmp[src]))
    ELSE fs

\* Faulty variant: the failed statement is tried again.
AfterRaiseRetry(stage) == stage

\* Faulty variant: the exception is swallowed and the next statement runs.
AfterRaiseFallThrough(stage) ==
    CASE stage = "connect" -> "preprocess"
      [] stage = "preprocess" -> "save_preprocessed"
      [] stage = "save_preprocessed" -> "generate_mvs"
      [] stage = "generate_mvs" -> "save_multiview"
      [] stage = "save_multiview" -> "make3d"
      [] OTHER -> "finally"

\* Lines 114-120: the statement an exception raised at `stage` leads to.
AfterRaise(stage) == "finally"

\* Line 120: `return None` of the except clause.
ExceptResult == ReturnNone

\* Faulty variant: close is called whether or not a client was made.
ShouldCloseAlways(c) == TRUE

\* Line 123: `if client:`.
ShouldClose(c) == c # NoClient

\* Lines 96-99.
obj_filename == join(output_dir, basename(obj_model_temp_path))
glb_filename == join(output_dir, basename(glb_model_temp_path))

\* Line 112.
SuccessResult == ReturnPaths(obj_filename, glb_filename)

\* ------------------------------------------------------------------ actions
\* Lines 32-35: the input image is checked first.
ValidateInput ==
    /\ pc = "validate"
    /\ IF InputMissing
       THEN /\ result' = ReturnNone
            /\ pc' = "done"
       ELSE /\ pc' = "makedirs"
            /\ UNCHANGED result
    /\ UNCHANGED <<inputs, outKind, files, tmp, run, client, locals, pending,
                   remote_log, trace, first>>

\* Lines 37-42: the output directory is created unless it exists.
MakeOutputDir ==
    /\ pc = "makedirs"
    /\ LET outcome == makedirs(output_nul, outKind, parent_writable)
           todo == MakedirsHandler(outcome)
       IN /\ outKind' = IF outcome = "ok" THEN "dir" ELSE outKind
          /\ pc' = IF todo = "continue" THEN "connect" ELSE "done"
          /\ result' = IF todo = "continue" THEN result
                       ELSE IF todo = "return_none" THEN ReturnNone
                       ELSE Propagates(outcome)
    /\ UNCHANGED <<inputs, files, tmp, run, client, locals, pending,
                   remote_log, trace, first>>

\* Lines 44-49: client = None, then client = Client(...).
Connect ==
    /\ pc = "connect"
    /\ \E a \in ConnectAnswers :
        /\ Replays(a)
        /\ trace' = Append(trace, a)
        /\ IF a[2] = "ok"
           THEN /\ client' = run
                /\ remote_log' = Append(remote_log, <<run, "open">>)
                /\ pc' = "preprocess"
                /\ UNCHANGED pending
           ELSE /\ pending' = ExceptResult
                /\ pc' = AfterRaise("connect")
                /\ UNCHANGED <<client, remote_log>>
    /\ UNCHANGED <<inputs, outKind, files, tmp, run, locals, result, first>>

\* Lines 54-58: client.predict(..., api_name="/preprocess").
Preprocess ==
    /\ pc = "preprocess"
    /\ remote_log' = Append(remote_log, <<client, "preprocess">>)
    /\ \E a \in PreprocessAnswers :
        /\ Replays(a)
        /\ trace' = Append(trace, a)
        /\ IF a[2] = "ok"
           THEN LET path == TempPath("pre", a[4])
                IN /\ processed_image_gradio_path' = path
                   /\ tmp' = Put(tmp, path, Content("pre", a[3]))
                   /\ pc' = "save_preprocessed"
                   /\ UNCHANGED pending
           ELSE /\ pending' = ExceptResult
                /\ pc' = AfterRaise("preprocess")
                /\ UNCHANGED <<tmp, processed_image_gradio_path>>
    /\ UNCHANGED <<inputs, outKind, files, run, client,
                   generated_mvs_gradio_path, obj_model_temp_path,
                   glb_model_temp_path, result, first>>

\* Lines 62-65: shutil.copy(processed_image_gradio_path, preprocessed_filename).
SavePreprocessed ==
    /\ pc = "save_preprocessed"
    /\ \E a \in CopyAnswers :
        /\ Replays(a)
        /\ trace' = Append(trace, a)
        /\ files' = copy(files, processed_image_gradio_path,
                         preprocessed_filename, a[2])
        /\ IF a[2] = "ok"
           THEN /\ pc' = "generate_mvs"
                /\ UNCHANGED pending
           ELSE /\ pending' = ExceptResult
                /\ pc' = AfterRaise("save_preprocessed")
    /\ UNCHANGED <<inputs, outKind, tmp, run, client, locals, result,
                   remote_log, first>>

\* Lines 71-77: client.predict(..., api_name="/generate_mvs").
GenerateMvs ==
    /\ pc = "generate_mvs"
    /\ remote_log' = Append(remote_log, <<client, "generate_mvs">>)
    /\ \E a \in MvsAnswers :
        /\ Replays(a)
        /\ trace' = Append(trace, a)
        /\ IF a[2] = "ok"
           THEN LET path == TempPath("mvs", a[4])
                IN /\ generated_mvs_gradio_path' = path
                   /\ tmp' = Put(tmp, path, Content("mvs", a[3]))
                   /\ pc' = "save_multiview"
                   /\ UNCHANGED pending
           ELSE /\ pending' = ExceptResult
                /\ pc' = AfterRaise("generate_mvs")
                /\ UNCHANGED <<tmp, generated_mvs_gradio_path>>
    /\ UNCHANGED <<inputs, outKind, files, run, client,
                   processed_image_gradio_path, obj_model_temp_path,
                   glb_model_temp_path, result, first>>

\* Lines 81-84: shutil.copy(generated_mvs_gradio_path, multiview_filename).
SaveMultiview ==
    /\ pc = "save_multiview"
    /\ \E a \in CopyAnswers :
        /\ Replays(a)
        /\ trace' = Append(trace, a)
        /\ files' = copy(files, generated_mvs_gradio_path,
                         multiview_filename, a[2])
        /\ IF a[2] = "ok"
           THEN /\ pc' = "make3d"
                /\ UNCHANGED pending
           ELSE /\ pending' = ExceptResult
                /\ pc' = AfterRaise("save_multiview")
    /\ UNCHANGED <<inputs, outKind, tmp, run, client, locals, result,
                   remote_log, first>>

\* Lines 89-91: obj, glb = client.predict(api_name="/make3d").
Make3d ==
    /\ pc = "make3d"
    /\ remote_log' = Append(remote_log, <<client, "make3d">>)
    /\ \E a \in Make3dAnswers :
        /\ Replays(a)
        /\ trace' = Append(trace, a)
        /\ IF a[2] = "ok"
           THEN LET obj == TempPath("obj", a[4])
                    glb == TempPath("glb", a[5])
                IN /\ obj_model_temp_path' = obj
                   /\ glb_model_temp_path' = glb
                   /\ tmp' = Put(Put(tmp, obj, Content("obj", a[3])),
                                 glb, Content("glb", a[3]))
                   /\ pc' = "save_obj"
                   /\ UNCHANGED pending
           ELSE /\ pending' = ExceptResult
                /\ pc' = AfterRaise("make3d")
                /\ UNCHANGED <<tmp, obj_model_temp_path, glb_model_temp_path>>
    /\ UNCHANGED <<inputs, outKind, files, run, client,
                   processed_image_gradio_path, generated_mvs_gradio_path,
                   result, first>>

\* Lines 95-102: shutil.copy(obj_model_temp_path, obj_filename).
SaveObj ==
    /\ pc = "save_obj"
    /\ \E a \in CopyAnswers :
        /\ Replays(a)
        /\ trace' = Append(trace, a)
        /\ files' = copy(files, obj_model_temp_path, obj_filename, a[2])
        /\ IF a[2] = "ok"
           THEN /\ pc' = "save_glb"
                /\ UNCHANGED pending
           ELSE /\ pending' = ExceptResult
                /\ pc' = AfterRaise("save_obj")
    /\ UNCHANGED <<inputs, outKind, tmp, run, client, locals, result,
                   remote_log, first>>

\* Lines 103-112: shutil.copy(glb_model_temp_path, glb_filename), then
\* `return obj_filename, glb_filename`.
SaveGlb ==
    /\ pc = "save_glb"
    /\ \E a \in CopyAnswers :
        /\ Replays(a)
        /\ trace' = Append(trace, a)
        /\ files' = copy(files, glb_model_temp_path, glb_filename, a[2])
        /\ IF a[2] = "ok"
           THEN /\ pending' = SuccessResult
                /\ pc' = "finally"
           ELSE /\ pending' = ExceptResult
                /\ pc' = AfterRaise("save_glb")
    /\ UNCHANGED <<inputs, outKind, tmp, run, client, locals, result,
                   remote_log, first>>

\* Lines 121-124: the finally clause; an exception raised by client.close()
\* replaces the pending return.
Finally ==
    /\ pc = "finally"
    /\ IF ShouldClose(client)
       THEN /\ remote_log' = Append(remote_log, <<client, "close">>)
            /\ \E a \in CloseAnswers :
                /\ Replays(a)
                /\ trace' = Append(trace, a)
                /\ result' = IF a[2] = "ok" THEN pending
                             ELSE Propagates("close")
       ELSE /\ result' = pending
            /\ UNCHANGED <<remote_log, trace>>
    /\ pc' = "done"
    /\ UNCHANGED <<inputs, outKind, files, tmp, run, client, locals, pending,
                   first>>

\* Lines 7-13: the function is called again with the same arguments; the
\* filesystem is as the previous invocation left it.
Reinvoke ==
    /\ pc = "done"
    /\ run < MaxRuns
    /\ run' = run + 1
    /\ first' = IF run = 1
                THEN [trace |-> trace, files |-> files, result |-> result]
                ELSE first
    /\ pc' = "validate"
    /\ client' = NoClient
    /\ processed_image_gradio_path' = NoPath
    /\ generated_mvs_gradio_path' = NoPath
    /\ obj_model_temp_path' = NoPath
    /\ glb_model_temp_path' = NoPath
    /\ tmp' = Empty
    /\ pending' = NotReturned
    /\ result' = NotReturned
    /\ remote_log' = <<>>
    /\ trace' = <<>>
    /\ UNCHANGED <<inputs, outKind, files>>

Next ==
    \/ ValidateInput
    \/ MakeOutputDir
    \/ Connect
    \/ Preprocess
    \/ SavePreprocessed
    \/ GenerateMvs
    \/ SaveMultiview
    \/ Make3d
    \/ SaveObj
    \/ SaveGlb
    \/ Finally
    \/ Reinvoke

Spec == Init /\ [][Next]_vars

\* --------------------------------------------------------------- properties
Pipeline == <<"preprocess", "generate_mvs", "make3d">>

\* The operations of remote_log, without the handles.
Ops == [i \in DOMAIN remote_log |-> remote_log[i][2]]

Called(op) == \E i \in DOMAIN remote_log : remote_log[i][2] = op
Acquired == Called("open")
CloseCount == Cardinality({i \in DOMAIN remote_log : remote_log[i][2] = "close"})
StageCalls == SelectSeq(Ops, LAMBDA op : op \in {"preprocess", "generate_mvs", "make3d"})

Answered(a) == \E i \in DOMAIN trace : trace[i] = a
\* The i-th call of this run raised, or was a copy that was not completed.
FailureAt(i) ==
    /\ trace[i][1] # "close"
    /\ trace[i][2] # "ok"
CloseRaised == Answered(Raises("close"))

MeshFiles == {p \in DOMAIN files : files[p][1] \in {"obj", "glb"}}

FourFiles ==
    {preprocessed_filename, multiview_filename,
     join(output_dir, "mesh.obj"), join(output_dir, "mesh.glb")}

\* The service answered all three stages, named the meshes mesh.obj and
\* mesh.glb, and every local copy was completed.
FullSuccess ==
    /\ Len(trace) = 9
    /\ \A i \in 1..8 : trace[i][2] = "ok"
    /\ trace[6][4] = "mesh.obj"
    /\ trace[6][5] = "mesh.glb"

\* C1: the session is closed exactly once on every exit path on which it
\* was acquired (success, a failed stage, a failed copy), on the handle that
\* was acquired, and close is never called when no session was acquired
\* (validation failed, or Client(...) raised).
C1_SessionReleasedOnce ==
    /\ CloseCount <= 1
    /\ \A i \in DOMAIN remote_log :
        remote_log[i][2] = "close" => Acquired /\ remote_log[i][1] = run
    /\ pc = "done" => CloseCount = (IF Acquired THEN 1 ELSE 0)
    /\ ~Acquired => CloseCount = 0

C1_Witness ==
    /\ pc = "done"
    /\ Acquired
    /\ Answered(Raises("make3d"))
    /\ CloseCount = 1

\* C2: a failure of close does not replace the outcome of the run: the
\* caller is given the value the run was returning (None after a failed
\* stage or copy, the paths after a success).
C2_CloseFailureDoesNotMask ==
    (pc = "done" /\ pending # NotReturned) => result = pending

\* C3: when the input image does not exist the invocation returns None,
\* opens no session, makes no remote call, and neither creates the output
\* directory nor writes a file.
C3_InputNotFound ==
    /\ [](~input_exists =>
            /\ client = NoClient
            /\ remote_log = <<>>
            /\ trace = <<>>
            /\ files = Empty
            /\ tmp = Empty
            /\ pc \in {"validate", "done"}
            /\ (pc = "done" => result = ReturnNone))
    /\ [][~input_exists => outKind' = outKind]_vars

C3_Witness ==
    /\ ~input_exists
    /\ pc = "done"
    /\ outKind = "absent"
    /\ result = ReturnNone

\* C4: when the input image exists and the output directory cannot be
\* created, the invocation returns None, with no session opened and no
\* remote call made.
C4_OutputDirUnavailable ==
    (input_exists /\ pc = "done" /\ outKind # "dir") =>
        /\ result = ReturnNone
        /\ client = NoClient
        /\ remote_log = <<>>

\* C5 as stated: after a full success against an empty output directory the
\* directory holds exactly the four files and the result holds all four
\* saved paths.
C5_ResultHoldsFourPaths ==
    (run = 1 /\ pc = "done" /\ FullSuccess /\ ~CloseRaised) =>
        /\ DOMAIN files = FourFiles
        /\ result.kind = "paths"
        /\ {result.paths[i] : i \in DOMAIN result.paths} = FourFiles

\* C5 as amended: after a full success against an empty output directory
\* the directory holds exactly the four files, each with the content the
\* service returned for it, and the invocation gives its caller the pair
\* (path of mesh.obj, path of mesh.glb), the two image paths not being part
\* of it; when close raises, that exception reaches the caller instead.
C5_ResultHoldsMeshPaths ==
    (run = 1 /\ pc = "done" /\ FullSuccess) =>
        /\ DOMAIN files = FourFiles
        /\ files[preprocessed_filename] = Content("pre", trace[2][3])
        /\ files[multiview_filename] = Content("mvs", trace[4][3])
        /\ files[join(output_dir, "mesh.obj")] = Content("obj", trace[6][3])
        /\ files[join(output_dir, "mesh.glb")] = Content("glb", trace[6][3])
        /\ result = IF CloseRaised
                    THEN Propagates("close")
                    ELSE ReturnPaths(join(output_dir, "mesh.obj"),
                                     join(output_dir, "mesh.glb"))

C5_Witness ==
    /\ run = 1
    /\ pc = "done"
    /\ FullSuccess
    /\ result.kind = "paths"
    /\ Len(result.paths) = 2

\* C6: a failure at stage N keeps what the stages before N saved, runs no
\* stage after N and gives the caller None, no exception reaching it; when
\* the multi-view stage fails the directory holds preprocessed_image.png,
\* no multiview_generation.png and no mesh file, and make3d is not called.
C6_FailureYieldsNone ==
    (run = 1 /\ pc = "done") =>
        \A i \in DOMAIN trace : FailureAt(i) =>
            /\ result = ReturnNone
            /\ \A j \in DOMAIN trace : j > i => trace[j][1] = "close"
            /\ i > 3 =>
                /\ preprocessed_filename \in DOMAIN files
                /\ \/ files[preprocessed_filename] = Content("pre", trace[2][3])
                   \/ preprocessed_filename \in MeshFiles
            /\ i > 5 => multiview_filename \in DOMAIN files
                        /\ files[multiview_filename] = Content("mvs", trace[4][3])
            /\ trace[i] = Raises("generate_mvs") =>
                /\ multiview_filename \notin DOMAIN files
                /\ MeshFiles = {}
                /\ ~Called("make3d")

\* C7: the remote operations of a run are a prefix of (preprocess,
\* generate_mvs, make3d), each made at most once and only after the stage
\* before it returned an artifact, all on the one session handle that was
\* opened, and none after that session was closed.
C7_StagesInOrder ==
    /\ \E k \in 0..3 : StageCalls = SubSeq(Pipeline, 1, k)
    /\ \A i \in DOMAIN remote_log :
        /\ remote_log[i][1] = run
        /\ remote_log[i][2] = "open" <=> i = 1
        /\ remote_log[i][2] = "close" => i = Len(remote_log)
    /\ remote_log # <<>> => client = run
    /\ Called("generate_mvs") => processed_image_gradio_path # NoPath
    /\ Called("make3d") => generated_mvs_gradio_path # NoPath
    /\ Called("close") => pc = "done"

C7_Witness ==
    /\ Ops = <<"open", "preprocess", "generate_mvs", "make3d", "close">>
    /\ run = 2

\* C8: when Client(...) raises after validation passed, no stage is called,
\* no file is written into the output directory and None is returned.
C8_ConnectionFailed ==
    Answered(Raises("connect")) =>
        /\ remote_log = <<>>
        /\ tmp = Empty
        /\ files = (IF run = 1 THEN Empty ELSE first.files)
        /\ pc \in {"finally", "done"}
        /\ pc = "done" => result = ReturnNone

C8_Witness ==
    /\ pc = "done"
    /\ trace = <<Raises("connect")>>
    /\ outKind = "dir"
    /\ result = ReturnNone

\* C9: invoked again with the same inputs and a deterministic service, after
\* a first invocation on an empty output directory, the function leaves the
\* directory with the files and contents the first invocation left, and
\* gives its caller the result the first invocation gave.
C9_RerunIdempotent ==
    (run >= 2 /\ pc = "done") =>
        /\ files = first.files
        /\ result = first.result
        /\ trace = first.trace

C9_Witness ==
    /\ run = 2
    /\ pc = "done"
    /\ result.kind = "paths"
    /\ DOMAIN files = FourFiles
    /\ first.files = files

\* C10: preprocessed_image.png holds the preprocess artifact when
\* generate_mvs is called, multiview_generation.png holds the multi-view
\* artifact when make3d is called, and a mesh file is in the output
\* directory only if both image files are.
C10_PersistedBeforeNextStage ==
    /\ pc = "generate_mvs" =>
        /\ preprocessed_filename \in DOMAIN files
        /\ files[preprocessed_filename] = tmp[processed_image_gradio_path]
    /\ pc = "make3d" =>
        /\ multiview_filename \in DOMAIN files
        /\ files[multiview_filename] = tmp[generated_mvs_gradio_path]
    /\ MeshFiles # {} =>
        /\ preprocessed_filename \in DOMAIN files
        /\ multiview_filename \in DOMAIN files

C10_Witness ==
    /\ run = 1
    /\ pc = "save_glb"
    /\ join(output_dir, "mesh.obj") \in MeshFiles
    /\ files[multiview_filename][1] = "mvs"

====
